---- MODULE Spec2Model ----
(***************************************************************************)
(* Model of mcp_server_motherduck/database.py: DatabaseClient, the         *)
(* connection-lifecycle manager (target resolution, persistent or          *)
(* short-lived connections, periodic health check, bounded-retry           *)
(* reconnection, query execution, close).                                  *)
(*                                                                         *)
(* Strings are sequences of one-character strings, so that startswith,     *)
(* "in" and concatenation are computed as Python computes them.            *)
(* Optional values (str | None) are sequences of length 0 (None) or 1.     *)
(* The coroutines run on one asyncio event loop: `running` is the task     *)
(* that holds the loop; a task gives it up only at an await that suspends  *)
(* (a contended lock, asyncio.sleep) or when its call ends.                *)
(***************************************************************************)
EXTENDS Integers, Sequences, FiniteSets, TLC

----------------------------------------------------------------------------
(* Bounds of the model *)

NumTasks == 2
MaxCalls == 3
MaxHandles == 3
MaxTime == 200

(* Program constants *)

HealthCheckInterval == 30
MaxRetries == 3
RetryDelay == 1

----------------------------------------------------------------------------
(* String literals of the source *)

MD_SCHEME == <<"m","d",":">>
TOKEN_PARAM == <<"?","m","o","t","h","e","r","d","u","c","k","_","t","o","k","e","n","=">>
SAAS_PARAM == <<"&","s","a","a","s","_","m","o","d","e","=","t","r","u","e">>
AMP_SINGLE_ATTACH == <<"&","s","i","n","g","l","e","_","a","t","t","a","c","h","=","t","r","u","e">>
Q_SINGLE_ATTACH == <<"?","s","i","n","g","l","e","_","a","t","t","a","c","h","=","t","r","u","e">>
(* line 195; the cross-mark emoji of the source is written X. Messages are
   sequences of text fragments. *)
QUERY_ERROR_PREFIX == <<"X Error executing query: ">>

(* Python string operations *)

StartsWith(s, p) == Len(s) >= Len(p) /\ SubSeq(s, 1, Len(p)) = p

Occurrences(s, p) == {i \in 1..(Len(s) - Len(p) + 1) : SubSeq(s, i, i + Len(p) - 1) = p}

Contains(s, p) == Occurrences(s, p) # {}

(* str | None *)

None == <<>>

Some(s) == <<s>>

(* Python truthiness of a str | None: None and "" are falsy *)
Truthy(o) == o # None /\ o[1] # <<>>

----------------------------------------------------------------------------
(* Inputs: constructor arguments and the process environment *)

T_md == <<"m","d",":">>
T_md_db == <<"m","d",":","d","b">>
T_md_q == <<"m","d",":","d","b","?","a","=","1">>
T_memory == <<":","m","e","m","o","r","y",":">>
T_file == <<"t",".","d","b">>
T_md_noscheme == <<"m","d">>
Tok == <<"t","o","k","1","2","3">>
EnvTok == <<"e","n","v","9">>

Targets == {T_md, T_md_db, T_md_q, T_memory, T_file, T_md_noscheme}

TokenArgs == {None, Some(<<>>), Some(Tok)}

EnvTokens == {None, Some(<<>>), Some(EnvTok)}

Configs ==
  [db_path : Targets, motherduck_token : TokenArgs, env_token : EnvTokens,
   saas_mode : BOOLEAN, read_only : BOOLEAN]

(* One configuration per connection strategy, for the lifecycle:
   remote persistent, local writable persistent, local read-only short-lived *)
LifecycleConfigs ==
  { [db_path |-> T_md, motherduck_token |-> Some(Tok), env_token |-> None,
     saas_mode |-> FALSE, read_only |-> FALSE],
    [db_path |-> T_file, motherduck_token |-> None, env_token |-> None,
     saas_mode |-> FALSE, read_only |-> FALSE],
    [db_path |-> T_file, motherduck_token |-> None, env_token |-> None,
     saas_mode |-> FALSE, read_only |-> TRUE] }

Tasks == 1..NumTasks

----------------------------------------------------------------------------
VARIABLES
  cfg,                \* constructor arguments and environment
  ctor,               \* "new" | "constructed" | "config_error" | "connect_error"
  db_path,            \* self.db_path (None before it is assigned)
  db_type,            \* self.db_type: "unset" | "duckdb" | "motherduck"
  handles,            \* every engine connection opened so far, by id 1..Len
  conn,               \* self.conn: a handle id, or 0 for None
  lockHolder,         \* self._connection_lock: the task holding it, or 0
  waiters,            \* tasks suspended in lock.acquire(), in FIFO order
  last_health_check,  \* self._last_health_check
  now,                \* time.time()
  running,            \* the task holding the event loop, or 0
  calls,              \* query() calls started so far
  shutdownCalled,     \* close() has been called
  failedState,        \* the last reconnection cycle exhausted its attempts
  probedOkAt,         \* time of the last health probe that succeeded, -1 if none
  lastProbeAt,        \* time of the last health probe issued (ok or failed), -1 if none
  pc,                 \* per task: position in query()/_execute/_ensure_connection
  frame,              \* per task: the locals attempt, conn, is_temp_conn and the
                      \* end of the current asyncio.sleep
  obs                 \* per task: what the call in flight has done so far

configVars == <<cfg, ctor, db_path, db_type>>
sharedVars == <<handles, conn, lockHolder, waiters, last_health_check, now, running,
                calls, shutdownCalled, failedState, probedOkAt, lastProbeAt>>
taskVars == <<pc, frame, obs>>
vars == <<configVars, sharedVars, taskVars>>

----------------------------------------------------------------------------
(* Target Resolver: _resolve_db_path_type. env is os.getenv("motherduck_token"). *)

ResolveFromEnv(path, env, saas_mode) ==
  [ok |-> TRUE, path |-> path \o TOKEN_PARAM \o env[1], type |-> "motherduck"]

(* variant: a remote target without a credential is opened as a local path *)
resolve_MissingTokenAsLocal(path, motherduck_token, saas_mode, env) ==
  IF StartsWith(path, MD_SCHEME) /\ Truthy(motherduck_token)
  THEN [ok |-> TRUE,
        path |-> path \o TOKEN_PARAM \o motherduck_token[1]
                   \o (IF saas_mode THEN SAAS_PARAM ELSE <<>>),
        type |-> "motherduck"]
  ELSE IF StartsWith(path, MD_SCHEME) /\ Truthy(env)
  THEN ResolveFromEnv(path, env, saas_mode)
  ELSE [ok |-> TRUE, path |-> path, type |-> "duckdb"]

resolve_db_path_type(path, motherduck_token, saas_mode, env) ==
  IF StartsWith(path, MD_SCHEME)
  THEN IF Truthy(motherduck_token)
       THEN IF saas_mode
            THEN [ok |-> TRUE,
                  path |-> path \o TOKEN_PARAM \o motherduck_token[1] \o SAAS_PARAM,
                  type |-> "motherduck"]
            ELSE [ok |-> TRUE,
                  path |-> path \o TOKEN_PARAM \o motherduck_token[1],
                  type |-> "motherduck"]
       ELSE IF Truthy(env)
            THEN ResolveFromEnv(path, env, saas_mode)
            ELSE [ok |-> FALSE, path |-> <<>>, type |-> "ValueError"]
  ELSE [ok |-> TRUE, path |-> path, type |-> "duckdb"]

(* variant: the directive is always joined with "?" *)
SingleAttach_AlwaysQuestion(path) == path \o Q_SINGLE_ATTACH

(* __init__ lines 45-53: the single-attach directive of a MotherDuck path *)
SingleAttach(path) ==
  IF Contains(path, <<"?">>)
  THEN path \o AMP_SINGLE_ATTACH
  ELSE path \o Q_SINGLE_ATTACH

AugmentedPath(r) ==
  IF r.type = "motherduck" THEN SingleAttach(r.path) ELSE r.path

----------------------------------------------------------------------------
(* Engine connections. A handle is closed by the client (close()) and may be
   broken by the environment (the session is lost); both are permanent. *)

(* kind: "persistent" (assigned to self.conn), "ephemeral" (opened for one call),
   "check" (the read-only start-up check); status: "open" | "broken" | "closed" *)
NewHandle(kind) == [kind |-> kind, status |-> "open"]

(* variant: the stale handle is left as it is *)
CloseHandle_Ignored(hs, h) == hs

(* conn.close() *)
CloseHandle(hs, h) == [hs EXCEPT ![h].status = "closed"]

(* conn.execute(...) succeeds on a handle that is neither closed nor broken *)
Usable(hs, h) == hs[h].status = "open"

(* _initialize_connection, with the engine's answers to duckdb.connect and to the
   read-only check's SELECT 1. ret is the returned handle id, 0 for None. *)
initialize_connection(hs, dbt, ro, connectOk, selectOk) ==
  LET h == Len(hs) + 1 IN
  IF dbt = "duckdb" /\ ro
  THEN IF ~connectOk
       THEN [raised |-> TRUE, ret |-> 0, hs |-> hs]
       ELSE IF ~selectOk
            THEN [raised |-> TRUE, ret |-> 0,
                  hs |-> Append(hs, NewHandle("check"))]
            ELSE [raised |-> FALSE, ret |-> 0,
                  hs |-> CloseHandle(Append(hs, NewHandle("check")), h)]
  ELSE IF ~connectOk
       THEN [raised |-> TRUE, ret |-> 0, hs |-> hs]
       ELSE [raised |-> FALSE, ret |-> h,
             hs |-> Append(hs, NewHandle("persistent"))]

----------------------------------------------------------------------------
(* DatabaseClient.__init__ *)

CtorOutcome(c, connectOk, selectOk) ==
  LET r == resolve_db_path_type(c.db_path, c.motherduck_token, c.saas_mode, c.env_token)
      p == AugmentedPath(r)
      i == initialize_connection(<<>>, r.type, c.read_only, connectOk, selectOk)
  IN IF ~r.ok
     THEN [ctor |-> "config_error", db_path |-> None, db_type |-> "unset",
           conn |-> 0, handles |-> <<>>]
     ELSE IF i.raised
          THEN [ctor |-> "connect_error", db_path |-> Some(p), db_type |-> r.type,
                conn |-> 0, handles |-> i.hs]
          ELSE [ctor |-> "constructed", db_path |-> Some(p), db_type |-> r.type,
                conn |-> i.ret, handles |-> i.hs]

StartTime == HealthCheckInterval

NoFrame == [attempt |-> 0, wakeAt |-> 0, conn |-> 0, is_temp_conn |-> FALSE]

(* startedFailed: when the call took the lock, the last reconnection cycle had
   exhausted its attempts and close() had not been called;
   opened: handles this call opened; attemptsMade, failed: reconnection attempts made
   and failed; sleeps: the backoff delays, in order;
   probe: "none" | "skipped" | "ok" | "failed";
   ehResult: what _ensure_connection returned or raised; submits: execute(query)
   submissions; engine: the engine's answer to the submission;
   result: what query() returned or raised *)
NoObs ==
  [startedFailed |-> FALSE, opened |-> {}, attemptsMade |-> 0, failed |-> 0,
   sleeps |-> <<>>, probe |-> "none", ehResult |-> [kind |-> "none"], submits |-> 0,
   engine |-> [kind |-> "none"], result |-> [kind |-> "none"]]

InitShared ==
  /\ lockHolder = 0
  /\ waiters = <<>>
  /\ last_health_check = 0
  /\ now = StartTime
  /\ running = 0
  /\ calls = 0
  /\ shutdownCalled = FALSE
  /\ failedState = FALSE
  /\ probedOkAt = -1
  /\ lastProbeAt = -1

InitTasks ==
  /\ pc = [t \in Tasks |-> "idle"]
  /\ frame = [t \in Tasks |-> NoFrame]
  /\ obs = [t \in Tasks |-> NoObs]

(* Before construction: any arguments, nothing assigned yet *)
InitNew ==
  /\ cfg \in Configs
  /\ ctor = "new"
  /\ db_path = None
  /\ db_type = "unset"
  /\ handles = <<>>
  /\ conn = 0
  /\ InitShared
  /\ InitTasks

Construct ==
  /\ ctor = "new"
  /\ \E connectOk, selectOk \in BOOLEAN :
       LET o == CtorOutcome(cfg, connectOk, selectOk) IN
       /\ ctor' = o.ctor
       /\ db_path' = o.db_path
       /\ db_type' = o.db_type
       /\ conn' = o.conn
       /\ handles' = o.handles
  /\ UNCHANGED <<cfg, lockHolder, waiters, last_health_check, now, running, calls,
                 shutdownCalled, failedState, probedOkAt, lastProbeAt, taskVars>>

SpecConstruct == InitNew /\ [][Construct]_vars

(* After a successful construction *)
Init ==
  /\ cfg \in LifecycleConfigs
  /\ LET o == CtorOutcome(cfg, TRUE, TRUE) IN
       /\ ctor = o.ctor
       /\ db_path = o.db_path
       /\ db_type = o.db_type
       /\ conn = o.conn
       /\ handles = o.handles
  /\ InitShared
  /\ InitTasks

----------------------------------------------------------------------------
(* The engine's answer to conn.execute(query) on handle h; the SQL text is opaque
   to the client, `valid` is whether the engine accepts it *)

EngineAccepts(hs, h, valid) == Usable(hs, h) /\ valid

EngineMessage(hs, h) ==
  IF hs[h].status = "closed" THEN <<"Connection already closed">>
  ELSE IF hs[h].status = "broken" THEN <<"connection lost">>
  ELSE <<"syntax error">>

ConnectError(a) == [kind |-> "error", attempt |-> a, msg |-> <<"cannot open database">>]

Returned(c) == [kind |-> "handle", h |-> c]

(* query(): except Exception as e: raise ValueError(f"... Error executing query: {e}") *)
QueryError(msg) == [kind |-> "error", msg |-> QUERY_ERROR_PREFIX \o msg]

(* variant: the lock never makes a caller wait *)
LockFree_Always(holder, ws) == TRUE

(* asyncio.Lock.acquire(): the fast path, the lock is free and nobody waits *)
LockFree(holder, ws) == holder = 0 /\ ws = <<>>

(* query(query) is called: _execute awaits _ensure_connection, which first acquires
   the lock. asyncio.Lock.acquire() returns at once when the lock is free and nobody
   waits; otherwise the caller queues and suspends. *)
Query(t) ==
  /\ ctor = "constructed"
  /\ running = 0
  /\ pc[t] = "idle"
  /\ calls < MaxCalls
  /\ calls' = calls + 1
  /\ IF LockFree(lockHolder, waiters)
     THEN /\ lockHolder' = t
          /\ running' = t
          /\ pc' = [pc EXCEPT ![t] = "locked"]
          /\ UNCHANGED waiters
     ELSE /\ waiters' = Append(waiters, t)
          /\ pc' = [pc EXCEPT ![t] = "wait_lock"]
          /\ UNCHANGED <<lockHolder, running>>
  /\ UNCHANGED <<configVars, handles, conn, last_health_check, now, shutdownCalled,
                 failedState, probedOkAt, lastProbeAt, frame, obs>>

(* The first waiter is woken once the lock is free *)
AcquireLock(t) ==
  /\ running = 0
  /\ pc[t] = "wait_lock"
  /\ lockHolder = 0
  /\ waiters # <<>>
  /\ Head(waiters) = t
  /\ lockHolder' = t
  /\ waiters' = Tail(waiters)
  /\ running' = t
  /\ pc' = [pc EXCEPT ![t] = "locked"]
  /\ UNCHANGED <<configVars, handles, conn, last_health_check, now, calls,
                 shutdownCalled, failedState, probedOkAt, lastProbeAt, frame, obs>>

(* variant: the lock is released on return only, not when an exception leaves *)
LockAfterExit_KeptOnRaise(holder, raised) == IF raised THEN holder ELSE 0

(* `async with self._connection_lock` (line 106): the lock is released when the
   block is left, by return or by an exception *)
LockAfterExit(holder, raised) == 0

(* variant: every connection is taken for a short-lived one and closed after use *)
AfterEnsure_AlwaysTemp(f, c, selfConn) == [f EXCEPT !.conn = c, !.is_temp_conn = TRUE]

(* variant: the test of is_temp_conn is inverted *)
AfterEnsure_Inverted(f, c, selfConn) ==
  [f EXCEPT !.conn = c, !.is_temp_conn = (selfConn # 0)]

(* _execute lines 176-177, once _ensure_connection has returned c:
   conn = c; is_temp_conn = self.conn is None *)
AfterEnsure(f, c, selfConn) == [f EXCEPT !.conn = c, !.is_temp_conn = (selfConn = 0)]

(* _ensure_connection lines 106-113: no persistent connection, a short-lived one is
   opened and returned; the lock is released on return and on raise. An exception
   passes through _execute (outside its try) and query() wraps it. *)
OpenEphemeral(t) ==
  /\ running = t
  /\ pc[t] = "locked"
  /\ conn = 0
  /\ \E connectOk \in BOOLEAN :
       /\ connectOk => Len(handles) < MaxHandles
       /\ LET h == Len(handles) + 1 IN
          IF connectOk
          THEN /\ handles' = Append(handles, NewHandle("ephemeral"))
               /\ frame' = [frame EXCEPT ![t] = AfterEnsure(@, h, conn)]
               /\ obs' = [obs EXCEPT ![t].startedFailed = (failedState /\ ~shutdownCalled),
                                     ![t].ehResult = Returned(h),
                                     ![t].opened = @ \cup {h}]
               /\ pc' = [pc EXCEPT ![t] = "submit"]
               /\ lockHolder' = LockAfterExit(t, FALSE)
               /\ UNCHANGED running
          ELSE /\ obs' = [obs EXCEPT ![t].startedFailed = (failedState /\ ~shutdownCalled),
                                     ![t].ehResult = ConnectError(0),
                                     ![t].result = QueryError(ConnectError(0).msg)]
               /\ pc' = [pc EXCEPT ![t] = "done"]
               /\ lockHolder' = LockAfterExit(t, TRUE)
               /\ running' = 0
               /\ UNCHANGED <<handles, frame>>
  /\ UNCHANGED <<configVars, conn, waiters, last_health_check, now, calls,
                 shutdownCalled, failedState, probedOkAt, lastProbeAt>>

(* variant: the comparison of line 93 is inverted *)
SkipProbe_Inverted(tnow, lhc) == tnow - lhc > HealthCheckInterval

(* _health_check line 93: the probe is skipped inside the interval *)
SkipProbe(tnow, lhc) == tnow - lhc < HealthCheckInterval

(* _health_check: "none" (no persistent connection), "skipped", "ok" or "failed" *)
health_check(c, hs, lhc, tnow) ==
  IF c = 0 THEN "none"
  ELSE IF SkipProbe(tnow, lhc) THEN "skipped"
  ELSE IF Usable(hs, c) THEN "ok"
  ELSE "failed"

(* variant: every health check records the time, whatever the probe did *)
NextLastCheck_EveryCall(hc, tnow, lhc) == tnow

(* variant: the time is recorded before the probe is tried *)
NextLastCheck_BeforeProbe(hc, tnow, lhc) == IF hc \in {"ok", "failed"} THEN tnow ELSE lhc

(* _health_check lines 96-102: only a probe that succeeded records its time *)
NextLastCheck(hc, tnow, lhc) == IF hc = "ok" THEN tnow ELSE lhc

(* _ensure_connection lines 115-121 and 136: the health check; a healthy connection
   is returned, a failed probe closes the stale handle and enters the retry loop *)
HealthCheck(t) ==
  /\ running = t
  /\ pc[t] = "locked"
  /\ conn # 0
  /\ LET hc == health_check(conn, handles, last_health_check, now) IN
       /\ last_health_check' = NextLastCheck(hc, now, last_health_check)
       /\ probedOkAt' = IF hc = "ok" THEN now ELSE probedOkAt
       /\ lastProbeAt' = IF hc \in {"ok", "failed"} THEN now ELSE lastProbeAt
       /\ IF hc = "failed"
          THEN /\ handles' = CloseHandle(handles, conn)
               /\ frame' = [frame EXCEPT ![t].attempt = 0]
               /\ obs' = [obs EXCEPT ![t].startedFailed = (failedState /\ ~shutdownCalled),
                                     ![t].probe = hc]
               /\ pc' = [pc EXCEPT ![t] = "reconnect"]
               /\ UNCHANGED lockHolder
          ELSE /\ frame' = [frame EXCEPT ![t] = AfterEnsure(@, conn, conn)]
               /\ obs' = [obs EXCEPT ![t].startedFailed = (failedState /\ ~shutdownCalled),
                                     ![t].probe = hc,
                                     ![t].ehResult = Returned(conn)]
               /\ pc' = [pc EXCEPT ![t] = "submit"]
               /\ lockHolder' = LockAfterExit(t, FALSE)
               /\ UNCHANGED handles
  /\ UNCHANGED <<configVars, conn, waiters, now, running, calls, shutdownCalled,
                 failedState>>

(* asyncio.sleep(self._retry_delay * (2 ** attempt)) *)
Backoff(a) == RetryDelay * (2 ^ a)

(* variant: a blocking sleep (time.sleep), the task keeps the event loop *)
LoopDuringSleep_Blocking(t) == t

(* `await asyncio.sleep(...)` (line 132) suspends the task: the event loop is free
   for the other tasks until the delay is over *)
LoopDuringSleep(t) == 0

(* variant: off by one, the last failed attempt sleeps instead of raising *)
MoreAttempts_OffByOne(a) == a < MaxRetries

(* line 131: the failed attempt is not the last one *)
MoreAttempts(a) == a < MaxRetries - 1

(* line 123: range(self._max_retries) has an iteration after a *)
NextInRange(a) == a + 1 < MaxRetries

(* variant: the break is missing *)
BreakOnSuccess_Never(ret) == FALSE

(* line 126: if self.conn: break *)
BreakOnSuccess(ret) == ret # 0

(* One iteration of the retry loop, lines 123-134 (and 136 when the loop is left) *)
ReconnectAttempt(t) ==
  /\ running = t
  /\ pc[t] = "reconnect"
  /\ \E connectOk, selectOk \in BOOLEAN :
       /\ connectOk => Len(handles) < MaxHandles
       /\ LET i == initialize_connection(handles, db_type, cfg.read_only,
                                         connectOk, selectOk)
              a == frame[t].attempt
              made == obs[t].attemptsMade + 1
              mine == IF i.ret # 0 THEN obs[t].opened \cup {i.ret} ELSE obs[t].opened
          IN
          /\ handles' = i.hs
          /\ IF ~i.raised /\ BreakOnSuccess(i.ret)
             THEN \* self.conn is assigned and truthy: break, return self.conn
                  /\ conn' = i.ret
                  /\ frame' = [frame EXCEPT ![t] = AfterEnsure(@, i.ret, i.ret)]
                  /\ obs' = [obs EXCEPT ![t].attemptsMade = made,
                                        ![t].ehResult = Returned(i.ret),
                                        ![t].opened = mine]
                  /\ pc' = [pc EXCEPT ![t] = "submit"]
                  /\ lockHolder' = LockAfterExit(t, FALSE)
                  /\ failedState' = FALSE
                  /\ UNCHANGED running
             ELSE IF ~i.raised /\ NextInRange(a)
             THEN \* self.conn is assigned, no break: the loop goes on without sleeping
                  /\ conn' = i.ret
                  /\ frame' = [frame EXCEPT ![t].attempt = a + 1]
                  /\ obs' = [obs EXCEPT ![t].attemptsMade = made, ![t].opened = mine]
                  /\ UNCHANGED <<pc, lockHolder, failedState, running>>
             ELSE IF ~i.raised
             THEN \* the loop ends without a break: self.conn is returned
                  /\ conn' = i.ret
                  /\ frame' = [frame EXCEPT ![t] = AfterEnsure(@, i.ret, i.ret)]
                  /\ obs' = [obs EXCEPT ![t].attemptsMade = made,
                                        ![t].ehResult = Returned(i.ret),
                                        ![t].opened = mine]
                  /\ pc' = [pc EXCEPT ![t] = "submit"]
                  /\ lockHolder' = LockAfterExit(t, FALSE)
                  /\ UNCHANGED <<failedState, running>>
             ELSE IF MoreAttempts(a)
             THEN \* the attempt raised: sleep, holding the lock
                  /\ frame' = [frame EXCEPT ![t].wakeAt = now + Backoff(a)]
                  /\ obs' = [obs EXCEPT ![t].attemptsMade = made,
                                        ![t].failed = @ + 1,
                                        ![t].sleeps = Append(@, Backoff(a))]
                  /\ pc' = [pc EXCEPT ![t] = "sleep"]
                  /\ running' = LoopDuringSleep(t)
                  /\ UNCHANGED <<conn, lockHolder, failedState>>
             ELSE \* the last attempt raised: re-raise
                  /\ obs' = [obs EXCEPT ![t].attemptsMade = made,
                                        ![t].failed = @ + 1,
                                        ![t].ehResult = ConnectError(a),
                                        ![t].result = QueryError(ConnectError(a).msg)]
                  /\ pc' = [pc EXCEPT ![t] = "done"]
                  /\ lockHolder' = LockAfterExit(t, TRUE)
                  /\ failedState' = TRUE
                  /\ running' = 0
                  /\ UNCHANGED <<conn, frame>>
  /\ UNCHANGED <<configVars, waiters, last_health_check, now, calls, shutdownCalled,
                 probedOkAt, lastProbeAt>>

(* the sleep ends and the loop takes its next iteration, if range() has one;
   otherwise the loop is left and self.conn is returned (line 136) *)
WakeUp(t) ==
  /\ running = 0
  /\ pc[t] = "sleep"
  /\ now >= frame[t].wakeAt
  /\ running' = t
  /\ IF NextInRange(frame[t].attempt)
     THEN /\ frame' = [frame EXCEPT ![t].attempt = @ + 1]
          /\ pc' = [pc EXCEPT ![t] = "reconnect"]
          /\ UNCHANGED <<lockHolder, obs>>
     ELSE /\ frame' = [frame EXCEPT ![t] = AfterEnsure(@, conn, conn)]
          /\ obs' = [obs EXCEPT ![t].ehResult = Returned(conn)]
          /\ pc' = [pc EXCEPT ![t] = "submit"]
          /\ lockHolder' = LockAfterExit(t, FALSE)
  /\ UNCHANGED <<configVars, handles, conn, waiters, last_health_check, now, calls,
                 shutdownCalled, failedState, probedOkAt, lastProbeAt>>

(* variant: a rejected statement is submitted again *)
AfterExecute_Retry(accepted) == IF accepted THEN "done" ELSE "submit"

(* _execute lines 179-186: execute(query) is called once; whatever it answers, the
   call goes on to `finally` and ends *)
AfterExecute(accepted) == "done"

(* _execute lines 179-189 and query(): the statement is submitted, a short-lived
   connection is closed in `finally`, an exception is wrapped by query().
   With conn None (h = 0) execute and close raise AttributeError. *)
Submit(t) ==
  /\ running = t
  /\ pc[t] = "submit"
  /\ \E valid \in BOOLEAN :
       LET h == frame[t].conn
           accepted == h # 0 /\ EngineAccepts(handles, h, valid)
           next == AfterExecute(accepted)
       IN
       /\ IF h = 0
          THEN /\ obs' = [obs EXCEPT ![t].result =
                            QueryError(<<"'NoneType' object has no attribute">>)]
               /\ UNCHANGED handles
          ELSE /\ obs' = [obs EXCEPT
                            ![t].submits = @ + 1,
                            ![t].engine =
                               IF accepted THEN [kind |-> "accepted"]
                               ELSE [kind |-> "rejected",
                                     msg |-> EngineMessage(handles, h)],
                            ![t].result =
                               IF accepted THEN [kind |-> "ok", msg |-> <<"table">>]
                               ELSE QueryError(EngineMessage(handles, h))]
               /\ handles' = IF next = "done" /\ frame[t].is_temp_conn
                             THEN CloseHandle(handles, h)
                             ELSE handles
       /\ pc' = [pc EXCEPT ![t] = next]
       /\ running' = IF next = "done" THEN 0 ELSE t
  /\ UNCHANGED <<configVars, conn, lockHolder, waiters, last_health_check, now, calls,
                 shutdownCalled, failedState, probedOkAt, lastProbeAt, frame>>

(* the caller takes the result; the task is free for another call *)
Finish(t) ==
  /\ running = 0
  /\ pc[t] = "done"
  /\ pc' = [pc EXCEPT ![t] = "idle"]
  /\ frame' = [frame EXCEPT ![t] = NoFrame]
  /\ obs' = [obs EXCEPT ![t] = NoObs]
  /\ UNCHANGED <<configVars, sharedVars>>

(* close(), called from the event loop between the tasks' steps *)
Close ==
  /\ ctor = "constructed"
  /\ running = 0
  /\ IF conn # 0
     THEN /\ handles' = CloseHandle(handles, conn)
          /\ conn' = 0
     ELSE UNCHANGED <<handles, conn>>
  /\ shutdownCalled' = TRUE
  /\ UNCHANGED <<configVars, lockHolder, waiters, last_health_check, now, running, calls,
                 failedState, probedOkAt, lastProbeAt, taskVars>>

(* Environment: time passes. The clock is read only by the health check, which
   compares it with last_health_check + interval, and by the event loop, which ends
   a sleep at wakeAt; time therefore advances to the instants the program can tell
   apart: the end of a pending sleep, the last second inside the health-check
   window and the first second after it. *)
Instants ==
  {frame[t].wakeAt : t \in {u \in Tasks : pc[u] = "sleep"}}
    \cup {last_health_check + HealthCheckInterval - 1,
          last_health_check + HealthCheckInterval}

Tick(d) ==
  /\ d > now
  /\ d <= MaxTime
  /\ now' = d
  /\ UNCHANGED <<configVars, handles, conn, lockHolder, waiters, last_health_check,
                 running, calls, shutdownCalled, failedState, probedOkAt, lastProbeAt, taskVars>>

(* Environment: an open session is lost *)
Break(h) ==
  /\ handles[h].status = "open"
  /\ handles' = [handles EXCEPT ![h].status = "broken"]
  /\ UNCHANGED <<configVars, conn, lockHolder, waiters, last_health_check, now, running,
                 calls, shutdownCalled, failedState, probedOkAt, lastProbeAt, taskVars>>

Next ==
  \/ \E t \in Tasks : Query(t)
  \/ \E t \in Tasks : AcquireLock(t)
  \/ \E t \in Tasks : OpenEphemeral(t)
  \/ \E t \in Tasks : HealthCheck(t)
  \/ \E t \in Tasks : ReconnectAttempt(t)
  \/ \E t \in Tasks : WakeUp(t)
  \/ \E t \in Tasks : Submit(t)
  \/ \E t \in Tasks : Finish(t)
  \/ Close
  \/ \E d \in Instants : Tick(d)
  \/ \E h \in 1..Len(handles) : Break(h)

Spec == Init /\ [][Next]_vars

----------------------------------------------------------------------------
(* Properties *)

(* C1: when the health probe failed and every reconnection attempt failed,
   _ensure_connection made exactly MaxRetries attempts, slept RetryDelay * 2^i after
   failed attempt i before attempt i+1 (1 s, then 2 s), and raised the error of the
   last attempt, which query() passes to the caller; no call makes more than
   MaxRetries attempts. *)
C1_ExhaustedRetries ==
  \A t \in Tasks :
    LET o == obs[t] IN
    /\ o.attemptsMade <= MaxRetries
    /\ pc[t] = "sleep" =>
         /\ Len(o.sleeps) = frame[t].attempt + 1
         /\ o.sleeps[Len(o.sleeps)] = RetryDelay * (2 ^ frame[t].attempt)
         /\ frame[t].attempt < MaxRetries - 1
    /\ pc[t] = "reconnect" =>
         /\ Len(o.sleeps) = frame[t].attempt
         /\ frame[t].attempt > 0 => now >= frame[t].wakeAt
    /\ (pc[t] \in {"submit", "done"} /\ o.probe = "failed" /\ o.failed = o.attemptsMade) =>
         /\ o.attemptsMade = MaxRetries
         /\ o.sleeps = <<RetryDelay, 2 * RetryDelay>>
         /\ o.ehResult.kind = "error"
         /\ o.ehResult.attempt = MaxRetries - 1
         /\ pc[t] = "done"
         /\ o.result.kind = "error"
         /\ o.submits = 0

C1_Witness ==
  \E t \in Tasks :
    /\ pc[t] = "done"
    /\ obs[t].probe = "failed"
    /\ obs[t].failed = MaxRetries
    /\ obs[t].ehResult.kind = "error"

(* C2: when the health probe failed and _ensure_connection returned, the first k
   attempts failed (k < MaxRetries), attempt k+1 succeeded and was the last one, the
   returned handle is the new handle now held in self.conn, it is not closed, and no
   error has been raised. *)
C2_StopsAtFirstSuccess ==
  \A t \in Tasks :
    LET o == obs[t] IN
    (pc[t] = "submit" /\ o.probe = "failed") =>
      /\ o.ehResult.kind = "handle"
      /\ o.failed < MaxRetries
      /\ o.attemptsMade = o.failed + 1
      /\ conn # 0
      /\ conn = o.ehResult.h
      /\ frame[t].conn = conn
      /\ conn \in o.opened
      /\ handles[conn].kind = "persistent"
      /\ handles[conn].status # "closed"
      /\ o.result.kind = "none"

C2_Witness ==
  \E t \in Tasks :
    /\ pc[t] = "submit"
    /\ obs[t].probe = "failed"
    /\ obs[t].failed = MaxRetries - 1
    /\ obs[t].attemptsMade = MaxRetries
    /\ obs[t].ehResult.kind = "handle"

(* C3: Failed is not terminal. A call that takes the lock after an earlier call
   exhausted its attempts (close() not having been called) issues the probe on the
   stale handle, which fails, and starts a fresh cycle whose attempt counter starts
   at 0 and makes up to MaxRetries attempts; if it returns, it returns a handle this
   call opened, which is not closed and is held in self.conn; if it raises, it has
   made MaxRetries attempts. *)
C3_FailedNotTerminal ==
  \A t \in Tasks :
    LET o == obs[t] IN
    o.startedFailed =>
      /\ o.probe = "failed"
      /\ o.attemptsMade <= MaxRetries
      /\ pc[t] = "reconnect" => frame[t].attempt = o.attemptsMade
      /\ o.ehResult.kind = "handle" =>
           /\ o.ehResult.h \in o.opened
           /\ o.attemptsMade >= 1
           /\ pc[t] = "submit" =>
                /\ conn = o.ehResult.h
                /\ handles[o.ehResult.h].status # "closed"
      /\ o.ehResult.kind = "error" => o.attemptsMade = MaxRetries

C3_Witness ==
  \E t \in Tasks :
    /\ obs[t].startedFailed
    /\ pc[t] = "submit"
    /\ obs[t].ehResult.kind = "handle"
    /\ obs[t].attemptsMade > 1

(* C4: a call that runs the health check less than 30 s after the last successful
   probe, with a persistent handle in self.conn, issues no probe, leaves self.conn
   and every handle as they are, and returns self.conn. *)
C4_NoProbeInsideWindow ==
  [][\A t \in Tasks :
       (/\ pc[t] = "locked"
        /\ pc'[t] # "locked"
        /\ conn # 0
        /\ probedOkAt >= 0
        /\ now < probedOkAt + 30)
       => /\ obs'[t].probe = "skipped"
          /\ probedOkAt' = probedOkAt
          /\ conn' = conn
          /\ handles' = handles
          /\ obs'[t].ehResult = Returned(conn)
          /\ pc'[t] = "submit"]_vars

C4_Witness ==
  \E t \in Tasks :
    /\ pc[t] = "submit"
    /\ obs[t].probe = "skipped"
    /\ probedOkAt >= 0
    /\ now = probedOkAt + 29

(* C5: in local read-only mode there is no persistent handle; a call that submits
   does so on a handle it opened itself, no handle belongs to two calls, a call that
   has ended (returned or raised) has closed every handle it opened, and every handle
   that is not closed is the one of a call about to submit: with no call in flight no
   handle is open. *)
C5_EphemeralHandles ==
  (db_type = "duckdb" /\ cfg.read_only) =>
    /\ conn = 0
    /\ \A t \in Tasks :
         /\ pc[t] = "submit" =>
              /\ frame[t].conn \in obs[t].opened
              /\ frame[t].is_temp_conn
              /\ handles[frame[t].conn].kind = "ephemeral"
              /\ handles[frame[t].conn].status # "closed"
         /\ pc[t] \in {"idle", "done"} =>
              \A h \in obs[t].opened : handles[h].status = "closed"
         /\ obs[t].result.kind = "ok" => obs[t].opened # {}
         /\ \A u \in Tasks \ {t} :
              /\ obs[t].opened \cap obs[u].opened = {}
              /\ frame[t].conn \notin obs[u].opened
    /\ \A h \in 1..Len(handles) :
         handles[h].status # "closed" =>
           \E t \in Tasks : pc[t] = "submit" /\ frame[t].conn = h /\ h \in obs[t].opened

C5_Witness ==
  /\ db_type = "duckdb"
  /\ cfg.read_only
  /\ \E t \in Tasks, u \in Tasks :
       /\ pc[t] = "done"
       /\ obs[t].engine.kind = "rejected"
       /\ obs[t].opened # {}
       /\ pc[u] = "done"
       /\ obs[u].engine.kind = "accepted"
       /\ obs[u].opened # {}

(* Strings the properties of the resolver speak of *)

P_TOKEN == <<"m","o","t","h","e","r","d","u","c","k","_","t","o","k","e","n","=">>
P_SAAS == <<"s","a","a","s","_","m","o","d","e","=","t","r","u","e">>
P_SINGLE_ATTACH == <<"s","i","n","g","l","e","_","a","t","t","a","c","h","=","t","r","u","e">>
EXPECTED_PLAIN == <<"m","d",":","?","m","o","t","h","e","r","d","u","c","k","_","t","o","k","e","n","=","t","o","k","1","2","3","&","s","i","n","g","l","e","_","a","t","t","a","c","h","=","t","r","u","e">>
EXPECTED_SAAS == <<"m","d",":","?","m","o","t","h","e","r","d","u","c","k","_","t","o","k","e","n","=","t","o","k","1","2","3","&","s","a","a","s","_","m","o","d","e","=","t","r","u","e","&","s","i","n","g","l","e","_","a","t","t","a","c","h","=","t","r","u","e">>

IsRemoteTarget(p) == Len(p) >= 3 /\ p[1] = "m" /\ p[2] = "d" /\ p[3] = ":"

HasCredential == Truthy(cfg.motherduck_token) \/ Truthy(cfg.env_token)

Credential ==
  IF Truthy(cfg.motherduck_token) THEN cfg.motherduck_token[1] ELSE cfg.env_token[1]

(* C6: for a remote target constructed with saas_mode and a credential (argument or
   environment), the connection string contains motherduck_token=<credential> and
   saas_mode=true. *)
C6_SaasModeEmbedded ==
  (ctor # "new" /\ IsRemoteTarget(cfg.db_path) /\ cfg.saas_mode /\ HasCredential) =>
    /\ db_path # None
    /\ Contains(db_path[1], P_TOKEN \o Credential)
    /\ Contains(db_path[1], P_SAAS)

(* C7: for a remote target constructed with a credential, the connection string
   contains motherduck_token=<credential>, contains single_attach=true exactly once,
   at its end, joined with "&" when what precedes it has a "?" and with "?"
   otherwise; "md:" with "tok123" gives the two strings of the specification. *)
C7_SingleAttachOnce ==
  (ctor # "new" /\ IsRemoteTarget(cfg.db_path) /\ HasCredential) =>
    /\ db_path # None
    /\ LET p == db_path[1]
           n == Len(p) - Len(P_SINGLE_ATTACH)
       IN /\ Contains(p, P_TOKEN \o Credential)
          /\ Cardinality(Occurrences(p, P_SINGLE_ATTACH)) = 1
          /\ n >= 1
          /\ SubSeq(p, n + 1, Len(p)) = P_SINGLE_ATTACH
          /\ p[n] = IF \E k \in 1..(n - 1) : p[k] = "?" THEN "&" ELSE "?"
          /\ (cfg.db_path = T_md /\ cfg.motherduck_token = Some(Tok) /\ ~cfg.saas_mode)
               => p = EXPECTED_PLAIN
          /\ (cfg.db_path = T_md /\ cfg.motherduck_token = Some(Tok) /\ cfg.saas_mode)
               => p = EXPECTED_SAAS

C7_Witness ==
  /\ ctor = "constructed"
  /\ cfg.db_path = T_md
  /\ cfg.motherduck_token = Some(Tok)
  /\ cfg.saas_mode
  /\ db_path = Some(EXPECTED_SAAS)

(* C8: the storage kind is remote exactly for the targets of the md: scheme; a remote
   target without a credential (argument or environment) fails with the
   configuration error and gets no storage kind; a local target resolves to local
   with its path unchanged, whatever the credential argument and the environment. *)
C8_TargetClassification ==
  ctor # "new" =>
    /\ db_type = "motherduck" => IsRemoteTarget(cfg.db_path)
    /\ db_type = "duckdb" => ~IsRemoteTarget(cfg.db_path)
    /\ (IsRemoteTarget(cfg.db_path) /\ ~HasCredential) =>
         (ctor = "config_error" /\ db_type = "unset" /\ db_path = None)
    /\ (IsRemoteTarget(cfg.db_path) /\ HasCredential) =>
         (ctor # "config_error" /\ db_type = "motherduck")
    /\ ~IsRemoteTarget(cfg.db_path) =>
         (ctor # "config_error" /\ db_type = "duckdb" /\ db_path = Some(cfg.db_path))

C8_Witness ==
  /\ ctor = "constructed"
  /\ cfg.db_path = T_file
  /\ cfg.motherduck_token = Some(Tok)
  /\ cfg.env_token = Some(EnvTok)
  /\ db_type = "duckdb"
  /\ db_path = Some(T_file)

(* C9: a call submits its statement at most once; when the engine rejects it the
   call has ended with an error whose message carries the engine's message. *)
C9_NoQueryRetry ==
  \A t \in Tasks :
    LET o == obs[t] IN
    /\ o.submits <= 1
    /\ o.engine.kind = "rejected" =>
         /\ pc[t] = "done"
         /\ o.submits = 1
         /\ o.result.kind = "error"
         /\ Contains(o.result.msg, o.engine.msg)

C9_Witness ==
  \E t \in Tasks :
    /\ pc[t] = "done"
    /\ obs[t].engine.kind = "rejected"
    /\ ~frame[t].is_temp_conn
    /\ handles[frame[t].conn].kind = "persistent"

(* C10: once close() has been called, self.conn holds no open handle. *)
C10_ShutdownDestroysHandle ==
  shutdownCalled => (conn = 0 \/ handles[conn].status = "closed")

(* C11: in persistent mode a probe query is issued at least HealthCheckInterval
   seconds after the probe before it, whether that one succeeded or failed. *)
C11_ProbeSpacing ==
  [][\A t \in Tasks :
       (/\ obs[t].probe = "none"
        /\ obs'[t].probe \in {"ok", "failed"}
        /\ lastProbeAt >= 0)
       => now - lastProbeAt >= HealthCheckInterval]_vars

(* C12: a call on a remote target or on a writable local target submits its
   statement on a persistent handle, never on a connection opened for the call:
   short-lived connections exist only for a local target with read_only. *)
C12_EphemeralOnlyReadOnlyLocal ==
  ~(db_type = "duckdb" /\ cfg.read_only) =>
    /\ \A h \in 1..Len(handles) : handles[h].kind # "ephemeral"
    /\ \A t \in Tasks :
         pc[t] = "submit" =>
           /\ frame[t].conn # 0
           /\ handles[frame[t].conn].kind = "persistent"
           /\ ~frame[t].is_temp_conn

(* Persistent handles that have not been closed *)
LivePersistent ==
  {h \in 1..Len(handles) : handles[h].kind = "persistent" /\ handles[h].status # "closed"}

(* C13: at most one persistent handle is not closed at any time, and it is the one
   held in self.conn; while a call is in the retry loop (about to open a replacement,
   or asleep between attempts) the stale handle has been closed and no persistent
   handle is open. *)
C13_OnePersistentHandle ==
  /\ Cardinality(LivePersistent) <= 1
  /\ LivePersistent \subseteq {conn}
  /\ \A t \in Tasks : pc[t] \in {"reconnect", "sleep"} => LivePersistent = {}

C13_Witness ==
  /\ Len(handles) = 3
  /\ \A h \in 1..3 : handles[h].kind = "persistent"
  /\ conn = 3
  /\ handles[3].status = "open"
  /\ shutdownCalled
  /\ \E t \in Tasks : pc[t] = "submit" /\ obs[t].probe = "failed" /\ 3 \in obs[t].opened

(* C14: after construction, a step that changes self.conn is taken by the task that
   holds the connection lock: the lock is held, by the task that is running. *)
C14_HandleFieldUnderLock ==
  [][conn' # conn => (lockHolder # 0 /\ running = lockHolder)]_vars

(* The positions of _ensure_connection inside `async with self._connection_lock` *)
InCriticalSection(t) == pc[t] \in {"locked", "reconnect", "sleep"}

(* C15: calls serialize on the probe and the reconnection. At most one call is
   inside the critical section, and it holds the lock; a call that enters the
   critical section while self.conn is a usable handle (for instance the handle a
   cycle has just established while this call waited) leaves it with that handle,
   without closing or opening a handle and without a reconnection attempt. *)
C15_SerializedReconnection ==
  /\ [](\A t \in Tasks : InCriticalSection(t) => lockHolder = t)
  /\ [][\A u \in Tasks :
          (/\ pc[u] = "locked"
           /\ pc'[u] # "locked"
           /\ conn # 0
           /\ handles[conn].status = "open")
          => /\ pc'[u] = "submit"
             /\ frame'[u].conn = conn
             /\ obs'[u].ehResult = Returned(conn)
             /\ obs'[u].attemptsMade = 0
             /\ obs'[u].opened = {}
             /\ conn' = conn
             /\ handles' = handles]_vars

(* a call queued on the lock while another call's cycle re-established the
   connection; the queued call has not started a cycle of its own *)
C15_Witness ==
  \E t \in Tasks, u \in Tasks :
    /\ t # u
    /\ pc[t] = "submit"
    /\ obs[t].probe = "failed"
    /\ obs[t].ehResult = Returned(conn)
    /\ conn \in obs[t].opened
    /\ handles[conn].status = "open"
    /\ pc[u] = "wait_lock"
    /\ waiters = <<u>>
    /\ obs[u].attemptsMade = 0

(* C16: when the constructor ends in a connection error, every handle opened by the
   failed connection attempt has been closed. *)
C16_NoPartialState ==
  ctor = "connect_error" =>
    \A h \in 1..Len(handles) : handles[h].status = "closed"

(* C17: a call about to submit on a persistent handle holds the handle that is in
   self.conn, and that handle has not been closed; no submission on a persistent
   handle was ever answered "already closed". *)
C17_NoSubmitOnClosed ==
  \A t \in Tasks :
    LET h == frame[t].conn IN
    (h # 0 /\ handles[h].kind = "persistent") =>
      /\ pc[t] = "submit" =>
           /\ handles[h].status # "closed"
           /\ h = conn
           /\ obs[t].ehResult = Returned(h)
      /\ obs[t].engine.kind = "rejected" =>
           obs[t].engine.msg # <<"Connection already closed">>

(* a call has exhausted its attempts and left the closed stale handle in self.conn;
   the next call is about to submit on a handle it opened *)
C17_Witness ==
  \E t \in Tasks, u \in Tasks :
    /\ pc[t] = "done"
    /\ obs[t].ehResult.kind = "error"
    /\ obs[t].failed = MaxRetries
    /\ pc[u] = "submit"
    /\ frame[u].conn # 0
    /\ handles[frame[u].conn].kind = "persistent"
    /\ handles[1].status = "closed"

(* Scheduling: the event loop runs every task that is ready (the running task's
   next step, the first waiter of a free lock, a sleeper whose delay is over) and
   time passes. Nothing makes a client start a call, close() be called or a session
   be lost. *)
TaskStep(t) ==
  \/ AcquireLock(t)
  \/ OpenEphemeral(t)
  \/ HealthCheck(t)
  \/ ReconnectAttempt(t)
  \/ WakeUp(t)
  \/ Submit(t)

FairSpec ==
  /\ Spec
  /\ \A t \in Tasks : WF_vars(TaskStep(t))
  /\ WF_vars(\E d \in Instants : Tick(d))

(* C18: the lock is held only by a call inside the critical section of
   _ensure_connection: a call that has returned from it or raised (by the last
   reconnection attempt or by the connect of a short-lived connection) has released
   it. Every call that waits for the lock or holds it eventually leaves
   _ensure_connection with a handle or an error. *)
C18_LockReleasedAndProgress ==
  /\ [](\A t \in Tasks : ~InCriticalSection(t) => lockHolder # t)
  /\ [](lockHolder # 0 => InCriticalSection(lockHolder))
  /\ \A t \in Tasks :
       (pc[t] = "wait_lock" \/ InCriticalSection(t)) ~> (pc[t] \in {"submit", "done"})

(* a call took the lock after the call before it raised out of _ensure_connection *)
C18_Witness ==
  \E t \in Tasks, u \in Tasks :
    /\ t # u
    /\ pc[t] = "done"
    /\ obs[t].ehResult.kind = "error"
    /\ pc[u] = "locked"
    /\ lockHolder = u

(* C19: a rejected submission ends the call with an error and changes nothing else:
   self.conn, _last_health_check, the lock and every persistent handle are as
   before, and no reconnection attempt is made. A submission on a handle whose
   session is lost is rejected. A call enters the retry loop only when the interval
   since the last successful probe has elapsed, so inside the interval a lost
   session is met by query errors only; the first call that takes the lock once the
   interval has elapsed probes the lost handle and enters the retry loop. *)
C19_FailedQueryChangesNothing ==
  /\ [][\A t \in Tasks :
          (obs[t].engine.kind = "none" /\ obs'[t].engine.kind = "rejected")
          => /\ pc'[t] = "done"
             /\ obs'[t].result.kind = "error"
             /\ obs'[t].attemptsMade = obs[t].attemptsMade
             /\ conn' = conn
             /\ last_health_check' = last_health_check
             /\ lockHolder' = lockHolder
             /\ Len(handles') = Len(handles)
             /\ \A h \in 1..Len(handles) :
                  handles[h].kind = "persistent" => handles'[h] = handles[h]]_vars
  /\ [][\A t \in Tasks :
          (/\ pc[t] = "submit"
           /\ pc'[t] # "submit"
           /\ frame[t].conn # 0
           /\ handles[frame[t].conn].status = "broken")
          => obs'[t].engine = [kind |-> "rejected", msg |-> <<"connection lost">>]]_vars
  /\ [][\A t \in Tasks :
          (pc[t] = "locked" /\ pc'[t] = "reconnect" /\ probedOkAt >= 0)
          => now >= probedOkAt + HealthCheckInterval]_vars
  /\ [][\A t \in Tasks :
          (/\ pc[t] = "locked"
           /\ pc'[t] # "locked"
           /\ conn # 0
           /\ handles[conn].status = "broken"
           /\ probedOkAt >= 0
           /\ now >= probedOkAt + HealthCheckInterval)
          => (pc'[t] = "reconnect" /\ obs'[t].probe = "failed")]_vars

(* inside the interval after a successful probe the session is lost; a call skipped
   the probe, its query failed, and the lost handle is still in self.conn *)
C19_Witness ==
  \E t \in Tasks :
    /\ pc[t] = "done"
    /\ obs[t].probe = "skipped"
    /\ obs[t].engine = [kind |-> "rejected", msg |-> <<"connection lost">>]
    /\ obs[t].result.kind = "error"
    /\ probedOkAt >= 0
    /\ now < probedOkAt + HealthCheckInterval
    /\ conn = frame[t].conn
    /\ handles[conn].status = "broken"

(* C20: while a call is suspended in its backoff sleep it does not hold the event
   loop: every other task that is not itself queued on the connection lock can take
   its next step (start a call, take its result), close() can run, and the clock
   runs on to the end of the sleep, before which the sleeper is not resumed. *)
C20_SleepDoesNotBlock ==
  \A t \in Tasks :
    pc[t] = "sleep" =>
      /\ running = 0
      /\ lockHolder = t
      /\ ENABLED Close
      /\ now < frame[t].wakeAt =>
           (~ENABLED WakeUp(t) /\ ENABLED Tick(frame[t].wakeAt))
      /\ now >= frame[t].wakeAt => ENABLED WakeUp(t)
      /\ \A u \in Tasks \ {t} :
           /\ pc[u] \in {"idle", "wait_lock", "done"}
           /\ (pc[u] = "idle" /\ calls < MaxCalls) => ENABLED Query(u)
           /\ pc[u] = "done" => ENABLED Finish(u)

(* while one call is in its second backoff sleep, another task has started a call
   (and queued on the lock the sleeper holds) *)
C20_Witness ==
  \E t \in Tasks, u \in Tasks :
    /\ t # u
    /\ pc[t] = "sleep"
    /\ now < frame[t].wakeAt
    /\ obs[t].sleeps = <<RetryDelay, 2 * RetryDelay>>
    /\ pc[u] = "wait_lock"

====
